---- MODULE Spec2Model ----
(***************************************************************************)
(* Inventory-and-request reconciliation of medconnect: the Medicine,       *)
(* Request and Notification collections and the route handlers of the      *)
(* dashboard router that create, accept, reject, cancel, complete and fail *)
(* requests, together with the donation route that creates medicines.      *)
(*                                                                         *)
(* Every handler is an async function whose awaits are database calls.     *)
(* Spec runs each handler to completion in one step (no other handler      *)
(* between its awaits).  SpecConc runs donate, and create and accept one    *)
(* database call at a time, so that handlers interleave at their awaits.   *)
(* Both use the same operators for what a handler computes and writes.     *)
(***************************************************************************)
EXTENDS Integers, Sequences, FiniteSets, Bags, TLC

\* ---------------------------------------------------------------- bounds
MaxMedicines == 1
MaxRequests == 2
MaxQty == 3
MaxTime == 1
MaxProcs == 2
\* documents the Notification collection can hold
MaxNotifications == 9
\* largest quantity donated and requested in the worked scenarios
MaxScenarioQty == 10
\* largest coordinate the geocoder returns
MaxCoordinate == 2
\* requests made while database calls throw, and the notifications after
\* which no further call is made
MaxFaultRequests == 1
MaxFaultNotifications == 6
\* medicines on the shelf when request operations on several medicines run
MaxShelf == 2

\* ------------------------------------------------------ program constants
\* Medicine.quantity and Request.quantity: { type: Number, min: 1 }
MinQuantity == 1

Users == {"u1", "u2", "u3"}

\* the users who donate; every user may call every request endpoint
Donors == {"u1"}

\* enum of Request.status in the Request schema ('Failed' is not a member)
RequestStatusEnum == {"Pending", "Accepted", "Rejected", "Completed", "Cancelled"}

\* status: { $in: ['Pending', 'Accepted'] }
NonTerminal == {"Pending", "Accepted"}

NoResponse == "none"

\* req.body.message / req.body.reason as sent by the donor
Messages == {""}

VARIABLES
    medicines,      \* Medicine collection: sequence of documents, _id = index
    requests,       \* Request collection: sequence of documents, _id = index
    notifications,  \* Notification collection: a bag of documents
    now,            \* the clock read by new Date()
    response,       \* what the handler that finished last sent with res.json / res.redirect
    inflight        \* per task: the handler suspended at an await, with its local variables

vars == <<medicines, requests, notifications, now, response, inflight>>

\* ---------------------------------------------------------------- helpers
Max0(x) == IF x > 0 THEN x ELSE 0

RECURSIVE SumQuantity(_, _)
\* pendingRequests.reduce((sum, req) => sum + req.quantity, 0)
SumQuantity(reqs, S) ==
    IF S = {} THEN 0
    ELSE LET i == CHOOSE j \in S : TRUE
         IN reqs[i].quantity + SumQuantity(reqs, S \ {i})

\* Request.find({ medicine: m, status: { $in: ['Pending', 'Accepted'] } })
FindNonTerminal(reqs, m) ==
    {i \in DOMAIN reqs : reqs[i].medicine = m /\ reqs[i].status \in NonTerminal}

\* Request.find({ medicine: m, status: s })
FindByStatus(reqs, m, s) ==
    {i \in DOMAIN reqs : reqs[i].medicine = m /\ reqs[i].status = s}

Notice(type, recipient, m, r) ==
    [type |-> type, recipient |-> recipient, medicine |-> m, request |-> r]

Reply(op, target, code, error) ==
    [op |-> op, target |-> target, code |-> code, error |-> error]

Idle == [pc |-> "idle"]

AllIdle == \A p \in DOMAIN inflight : inflight[p].pc = "idle"

\* Notification.create / Notification.insertMany
Notify(bag, notices) == bag (+) [n \in notices |-> 1]

\* the Notification collection still has room: MaxNotifications documents,
\* and the Cardinality(Users) of every donation after the first
Room ==
    BagCardinality(notifications)
        < MaxNotifications + Cardinality(Users) * Max0(Len(medicines) - 1)

\* the collections and the clock as a handler finds them
Store == [medicines |-> medicines, requests |-> requests,
          notifications |-> notifications, now |-> now]

\* what a handler leaves behind: the collections and the reply it sent
Result(meds, reqs, notes, reply) ==
    [medicines |-> meds, requests |-> reqs, notifications |-> notes, response |-> reply]

\* an early return: nothing written
Refused(S, reply) == Result(S.medicines, S.requests, S.notifications, reply)

\* a handler run to completion in one step
Run(out) ==
    /\ Room
    /\ medicines' = out.medicines
    /\ requests' = out.requests
    /\ notifications' = out.notifications
    /\ response' = out.response
    /\ UNCHANGED <<now, inflight>>

\* a schema without the minimum on quantity
MedicineValidWithoutMin(quantity) == TRUE

\* medicine.save(): schema validation of the document being written
MedicineValid(quantity) == quantity >= MinQuantity

\* medicine.save() sends only the paths that were modified on the loaded
\* document (snap) as a $set on the stored document (live)
SaveMedicine(live, snap, quantity, status) ==
    [live EXCEPT !.quantity = IF quantity # snap.quantity THEN quantity ELSE @,
                 !.status = IF status # snap.status THEN status ELSE @]

\* ------------------------------------------------------------------ Init
Init ==
    /\ medicines = <<>>
    /\ requests = <<>>
    /\ notifications = EmptyBag
    /\ now = 0
    /\ response = Reply("none", 0, 0, "")
    /\ inflight = [p \in 1..MaxProcs |-> Idle]

\* time passes
Tick ==
    /\ now < MaxTime
    /\ now' = now + 1
    /\ UNCHANGED <<medicines, requests, notifications, response, inflight>>

\* ------------------------------------------------------------ POST /donate
DonateErrors(q, e, t) ==
    (IF q < 1 THEN {"Quantity must be at least 1."} ELSE {})
    \cup (IF e <= t THEN {"Expiry date must be in the future."} ELSE {})

DonateHandler(S, u, q, e) ==
    IF DonateErrors(q, e, S.now) # {}
    THEN Refused(S, Reply("donate", 0, 302, "validation"))
    ELSE LET m == Len(S.medicines) + 1
         IN  Result(Append(S.medicines,
                       [donor |-> u, quantity |-> q, status |-> "Available",
                        expiry |-> e, donated |-> q]),
                    S.requests,
                    Notify(S.notifications,
                       {Notice("medicine_donated", u, m, 0)}
                       \cup {Notice("system", v, m, 0) : v \in Users \ {u}}),
                    Reply("donate", m, 302, ""))

Donate(u, q, e) ==
    /\ AllIdle
    /\ Len(medicines) < MaxMedicines
    /\ Run(DonateHandler(Store, u, q, e))

\* ------------------------------------- POST /request-medicine/:medicineId
\* quantity || 1
RequestedQuantity(q) == IF q = 0 THEN 1 ELSE q

\* the remaining quantity with the requests already made left out of it
RemainingQuantityIgnoringRequests(quantity, total) == Max0(quantity)

\* Math.max(0, medicine.quantity - totalRequestedQuantity)
RemainingQuantity(quantity, total) == Max0(quantity - total)

\* the checks made after Request.find, in the order of the code
CreateRefusalMedicine(med, total, u, t) ==
    IF RemainingQuantity(med.quantity, total) = 0
    THEN "No quantity available for this medicine"
    ELSE IF med.expiry <= t THEN "This medicine has expired"
    ELSE IF med.donor = u THEN "You cannot request your own medicine"
    ELSE ""

\* the checks made after Request.findOne, in the order of the code
CreateRefusalRequest(med, total, existing, q) ==
    LET remainingQuantity == RemainingQuantity(med.quantity, total)
        requestedQuantity == RequestedQuantity(q)
    IN  IF existing THEN "You already have a pending request for this medicine"
        ELSE IF requestedQuantity > remainingQuantity THEN "Only N available"
        ELSE IF requestedQuantity <= 0 THEN "Requested quantity must be greater than 0"
        ELSE ""

\* newTotalRequested >= medicine.quantity ? 'Stock Finished' : 'Requested'
CreateStatus(med, total, requestedQuantity) ==
    LET newTotalRequested == total + requestedQuantity
    IN  IF newTotalRequested >= med.quantity THEN "Stock Finished"
        ELSE IF newTotalRequested > 0 THEN "Requested"
        ELSE med.status

NewRequest(u, med, m, requestedQuantity) ==
    [requester |-> u, donor |-> med.donor, medicine |-> m,
     quantity |-> requestedQuantity, status |-> "Pending",
     donorResponse |-> NoResponse, completedAt |-> FALSE]

CreateNotices(u, med, m, r) ==
    {Notice("request_received", med.donor, m, r), Notice("request_sent", u, m, r)}

\* Request.findOne({ requester, medicine, status: { $in: ['Pending','Accepted'] } })
ExistingRequest(reqs, u, m) ==
    \E i \in FindNonTerminal(reqs, m) : reqs[i].requester = u

CreateHandler(S, u, m, q) ==
    IF m \notin DOMAIN S.medicines
    THEN Refused(S, Reply("create", 0, 404, "Medicine not found"))
    ELSE LET med == S.medicines[m]
             total == SumQuantity(S.requests, FindNonTerminal(S.requests, m))
             refusal1 == CreateRefusalMedicine(med, total, u, S.now)
             refusal2 == CreateRefusalRequest(med, total,
                                              ExistingRequest(S.requests, u, m), q)
             r == Len(S.requests) + 1
         IN  IF refusal1 # "" THEN Refused(S, Reply("create", 0, 400, refusal1))
             ELSE IF refusal2 # "" THEN Refused(S, Reply("create", 0, 400, refusal2))
             ELSE Result([S.medicines EXCEPT ![m] =
                             SaveMedicine(@, med, med.quantity,
                                          CreateStatus(med, total, RequestedQuantity(q)))],
                         Append(S.requests, NewRequest(u, med, m, RequestedQuantity(q))),
                         Notify(S.notifications, CreateNotices(u, med, m, r)),
                         Reply("create", r, 200, ""))

Create(u, m, q) ==
    /\ AllIdle
    /\ Len(requests) < MaxRequests
    /\ Run(CreateHandler(Store, u, m, q))

\* ------------------------------------------------ request status endpoints
\* message || 'Request accepted'
OrDefault(msg, default) == IF msg = "" THEN default ELSE msg

\* request.save(): only the paths modified on the loaded document (snap) are
\* written to the stored one (live); donorResponse.respondedAt = new Date()
\* and completedAt = new Date() always count as modified
SaveRequest(live, snap, doc) ==
    [live EXCEPT !.status = IF doc.status # snap.status THEN doc.status ELSE @,
                 !.donorResponse = doc.donorResponse,
                 !.completedAt = doc.completedAt]

\* request.save(): schema validation of the status being written
RequestValid(doc) == doc.status \in RequestStatusEnum

\* ------------------------------------ POST /api/requests/:requestId/accept
AcceptRequest(req, msg) ==
    [req EXCEPT !.status = "Accepted",
                !.donorResponse = OrDefault(msg, "Request accepted")]

\* the quantity of an accept that adds the requested quantity
AcceptQuantityAdded(med, req) == med.quantity + req.quantity

\* Math.max(0, medicine.quantity - requestedQuantity)
AcceptQuantity(med, req) == Max0(med.quantity - req.quantity)

\* others: Request.find({ medicine, status in Pending/Accepted, _id: { $ne: request._id } })
AcceptStatus(newQuantity, others) ==
    IF newQuantity = 0 THEN "Stock Finished"
    ELSE IF others # {} THEN "Requested"
    ELSE "Available"

AcceptHandler(S, u, r, msg) ==
    IF r \notin DOMAIN S.requests
    THEN Refused(S, Reply("accept", r, 404, "Request not found"))
    ELSE IF S.requests[r].donor # u
    THEN Refused(S, Reply("accept", r, 403, "Unauthorized to accept this request"))
    ELSE LET req == S.requests[r]
             m == req.medicine
             med == S.medicines[m]
             saved == [S.requests EXCEPT ![r] = SaveRequest(@, req, AcceptRequest(req, msg))]
             newQuantity == AcceptQuantity(med, req)
             status == AcceptStatus(newQuantity, FindNonTerminal(saved, m) \ {r})
         IN  IF MedicineValid(newQuantity)
             THEN Result([S.medicines EXCEPT ![m] = SaveMedicine(@, med, newQuantity, status)],
                         saved,
                         Notify(S.notifications,
                                {Notice("request_accepted", req.requester, 0, r)}),
                         Reply("accept", r, 200, ""))
             ELSE Result(S.medicines, saved, S.notifications,
                         Reply("accept", r, 500, "Error accepting request"))

Accept(u, r, msg) ==
    /\ AllIdle
    /\ Run(AcceptHandler(Store, u, r, msg))

\* ------------------------------------ POST /api/requests/:requestId/reject
RejectRequest(req, msg) ==
    [req EXCEPT !.status = "Rejected",
                !.donorResponse = OrDefault(msg, "Request rejected")]

\* medicine.quantity += requestedQuantity
RejectQuantity(med, req) == med.quantity + req.quantity

RejectStatus(others) == IF others # {} THEN "Requested" ELSE "Available"

RejectHandler(S, u, r, msg) ==
    IF r \notin DOMAIN S.requests
    THEN Refused(S, Reply("reject", r, 404, "Request not found"))
    ELSE IF S.requests[r].donor # u
    THEN Refused(S, Reply("reject", r, 403, "Unauthorized to reject this request"))
    ELSE LET req == S.requests[r]
             m == req.medicine
             med == S.medicines[m]
             wasAccepted == req.status = "Accepted"
             saved == [S.requests EXCEPT ![r] = SaveRequest(@, req, RejectRequest(req, msg))]
             status == RejectStatus(FindNonTerminal(saved, m) \ {r})
         IN  Result(IF wasAccepted
                    THEN [S.medicines EXCEPT ![m] =
                             SaveMedicine(@, med, RejectQuantity(med, req), status)]
                    ELSE S.medicines,
                    saved,
                    Notify(S.notifications,
                           {Notice("request_rejected", req.requester, 0, r)}),
                    Reply("reject", r, 200, ""))

Reject(u, r, msg) ==
    /\ AllIdle
    /\ Run(RejectHandler(Store, u, r, msg))

\* ---------------------------------- POST /api/requests/:requestId/complete
CompleteRequest(req) ==
    [req EXCEPT !.status = "Completed", !.completedAt = TRUE]

\* written only when no other request of the medicine is Accepted
CompleteStatus(med, pendingRequests) ==
    IF pendingRequests # {} THEN "Requested"
    ELSE IF med.quantity > 0 THEN "Available"
    ELSE "Stock Finished"

CompleteHandler(S, u, r) ==
    IF r \notin DOMAIN S.requests
    THEN Refused(S, Reply("complete", r, 404, "Request not found"))
    ELSE IF S.requests[r].donor # u
    THEN Refused(S, Reply("complete", r, 403, "Unauthorized to complete this donation"))
    ELSE LET req == S.requests[r]
             m == req.medicine
             med == S.medicines[m]
             saved == [S.requests EXCEPT ![r] = SaveRequest(@, req, CompleteRequest(req))]
             otherAcceptedRequests == FindByStatus(saved, m, "Accepted") \ {r}
             pendingRequests == FindByStatus(saved, m, "Pending")
         IN  Result(IF otherAcceptedRequests = {}
                    THEN [S.medicines EXCEPT ![m] =
                             SaveMedicine(@, med, med.quantity,
                                          CompleteStatus(med, pendingRequests))]
                    ELSE S.medicines,
                    saved,
                    Notify(S.notifications,
                           {Notice("donation_completed", req.requester, 0, r)}),
                    Reply("complete", r, 200, ""))

Complete(u, r) ==
    /\ AllIdle
    /\ Run(CompleteHandler(Store, u, r))

\* ------------------------------------ POST /api/requests/:requestId/failed
FailRequest(req, reason) ==
    [req EXCEPT !.status = "Failed",
                !.donorResponse = OrDefault(reason, "Donation failed")]

FailHandler(S, u, r, reason) ==
    IF r \notin DOMAIN S.requests
    THEN Refused(S, Reply("fail", r, 404, "Request not found"))
    ELSE IF S.requests[r].donor # u
    THEN Refused(S, Reply("fail", r, 403, "Unauthorized to mark this donation as failed"))
    ELSE LET req == S.requests[r]
             doc == FailRequest(req, reason)
         IN  IF RequestValid(doc)
             THEN Result(S.medicines,
                         [S.requests EXCEPT ![r] = SaveRequest(@, req, doc)],
                         Notify(S.notifications,
                                {Notice("donation_failed", req.requester, 0, r)}),
                         Reply("fail", r, 200, ""))
             ELSE Refused(S, Reply("fail", r, 500, "Error marking donation as failed"))

Fail(u, r, reason) ==
    /\ AllIdle
    /\ Run(FailHandler(Store, u, r, reason))

\* ----------------------------------------- POST /requests/:requestId/cancel
CancelRequest(req) == [req EXCEPT !.status = "Cancelled"]

\* medicine.status === 'Requested' ? 'Available' : unchanged
CancelStatus(med) == IF med.status = "Requested" THEN "Available" ELSE med.status

\* request.status !== 'Pending', with the check left out
NotPendingUnchecked(req) == FALSE

\* request.status !== 'Pending'
NotPending(req) == req.status # "Pending"

\* Request.findOne({ _id: requestId }): the request of any requester
FindRequestOfAnyone(reqs, r, u) == r \in DOMAIN reqs

\* Request.findOne({ _id: requestId, requester: userId })
FindOwnRequest(reqs, r, u) == r \in DOMAIN reqs /\ reqs[r].requester = u

CancelHandler(S, u, r) ==
    IF ~FindOwnRequest(S.requests, r, u)
    THEN Refused(S, Reply("cancel", r, 404, "Request not found or unauthorized"))
    ELSE IF NotPending(S.requests[r])
    THEN Refused(S, Reply("cancel", r, 400, "Only pending requests can be cancelled"))
    ELSE LET req == S.requests[r]
             m == req.medicine
             med == S.medicines[m]
         IN  Result([S.medicines EXCEPT ![m] =
                        SaveMedicine(@, med, med.quantity, CancelStatus(med))],
                    [S.requests EXCEPT ![r] = SaveRequest(@, req, CancelRequest(req))],
                    Notify(S.notifications,
                           {Notice("request_cancelled", req.donor, 0, r)}),
                    Reply("cancel", r, 200, ""))

Cancel(u, r) ==
    /\ AllIdle
    /\ Run(CancelHandler(Store, u, r))

\* ------------------------------------------------------- POST /cancel/:id
CancelPageHandler(S, u, r) ==
    IF ~FindOwnRequest(S.requests, r, u)
    THEN Refused(S, Reply("cancelPage", r, 302, "Request not found or unauthorized."))
    ELSE IF NotPending(S.requests[r])
    THEN Refused(S, Reply("cancelPage", r, 302, "Only pending requests can be cancelled."))
    ELSE LET req == S.requests[r]
         IN  Result(S.medicines,
                    [S.requests EXCEPT ![r] = SaveRequest(@, req, CancelRequest(req))],
                    Notify(S.notifications,
                           {Notice("request_cancelled", req.donor, 0, r)}),
                    Reply("cancelPage", r, 302, ""))

CancelPage(u, r) ==
    /\ AllIdle
    /\ Run(CancelPageHandler(Store, u, r))

\* the handlers, each run to completion
Handlers ==
    \/ \E u \in Donors, q \in 0..MaxQty, e \in 0..(MaxTime + 1) : Donate(u, q, e)
    \/ \E u \in Users, m \in 1..MaxMedicines, q \in (-1)..MaxQty : Create(u, m, q)
    \/ \E u \in Users, r \in 1..MaxRequests, msg \in Messages : Accept(u, r, msg)
    \/ \E u \in Users, r \in 1..MaxRequests, msg \in Messages : Reject(u, r, msg)
    \/ \E u \in Users, r \in 1..MaxRequests : Complete(u, r)
    \/ \E u \in Users, r \in 1..MaxRequests, msg \in Messages : Fail(u, r, msg)
    \/ \E u \in Users, r \in 1..MaxRequests : Cancel(u, r)
    \/ \E u \in Users, r \in 1..MaxRequests : CancelPage(u, r)

Next == Tick \/ Handlers

Spec == Init /\ [][Next]_vars

\* ------------------------------------------------------------------------
\* The same handlers, one database call per step.  A task p holds the local
\* variables of its handler in inflight[p] while it is suspended at an await.

Finish(p, reply) ==
    /\ inflight' = [inflight EXCEPT ![p] = Idle]
    /\ response' = reply

Creating == {p \in DOMAIN inflight : inflight[p].pc \in
                {"create_find", "create_findOne", "create_save"}}

\* await Medicine.findById(medicineId)
CreateFindById(p, u, m, q) ==
    /\ inflight[p].pc = "idle"
    /\ Room
    /\ Len(requests) + Cardinality(Creating) < MaxRequests
    /\ IF m \notin DOMAIN medicines
       THEN Finish(p, Reply("create", 0, 404, "Medicine not found"))
       ELSE /\ inflight' = [inflight EXCEPT ![p] =
                   [pc |-> "create_find", u |-> u, m |-> m, q |-> q,
                    med |-> medicines[m], total |-> 0]]
            /\ UNCHANGED response
    /\ UNCHANGED <<medicines, requests, notifications, now>>

\* await Request.find({ medicine, status in Pending/Accepted }), then the
\* checks that need no further read
CreateFind(p) ==
    LET l == inflight[p]
        total == SumQuantity(requests, FindNonTerminal(requests, l.m))
        refusal == CreateRefusalMedicine(l.med, total, l.u, now)
    IN  /\ l.pc = "create_find"
        /\ IF refusal # ""
           THEN Finish(p, Reply("create", 0, 400, refusal))
           ELSE /\ inflight' = [inflight EXCEPT ![p] =
                       [l EXCEPT !.pc = "create_findOne", !.total = total]]
                /\ UNCHANGED response
        /\ UNCHANGED <<medicines, requests, notifications, now>>

\* await Request.findOne({ requester, medicine, ... }), then the quantity checks
CreateFindOne(p) ==
    LET l == inflight[p]
        refusal == CreateRefusalRequest(l.med, l.total,
                                        ExistingRequest(requests, l.u, l.m), l.q)
    IN  /\ l.pc = "create_findOne"
        /\ IF refusal # ""
           THEN Finish(p, Reply("create", 0, 400, refusal))
           ELSE /\ inflight' = [inflight EXCEPT ![p] = [l EXCEPT !.pc = "create_save"]]
                /\ UNCHANGED response
        /\ UNCHANGED <<medicines, requests, notifications, now>>

\* await request.save()
CreateSave(p) ==
    LET l == inflight[p]
    IN  /\ l.pc = "create_save"
        /\ requests' = Append(requests, NewRequest(l.u, l.med, l.m, RequestedQuantity(l.q)))
        /\ inflight' = [inflight EXCEPT ![p] =
               [pc |-> "create_medicine", u |-> l.u, m |-> l.m, med |-> l.med,
                r |-> Len(requests) + 1,
                status |-> CreateStatus(l.med, l.total, RequestedQuantity(l.q))]]
        /\ UNCHANGED <<medicines, notifications, now, response>>

\* await medicine.save(): it throws when the document is no longer stored
CreateMedicineSave(p) ==
    LET l == inflight[p]
    IN  /\ l.pc = "create_medicine"
        /\ IF l.m \in DOMAIN medicines
           THEN /\ medicines' = [medicines EXCEPT ![l.m] =
                       SaveMedicine(@, l.med, l.med.quantity, l.status)]
                /\ inflight' = [inflight EXCEPT ![p] =
                       [pc |-> "create_notify", u |-> l.u, m |-> l.m,
                        med |-> l.med, r |-> l.r]]
                /\ UNCHANGED response
           ELSE /\ Finish(p, Reply("create", 0, 500, "Error processing request"))
                /\ UNCHANGED medicines
        /\ UNCHANGED <<requests, notifications, now>>

\* await Notification.insertMany(notifications)
CreateNotify(p) ==
    LET l == inflight[p]
    IN  /\ l.pc = "create_notify"
        /\ notifications' = Notify(notifications, CreateNotices(l.u, l.med, l.m, l.r))
        /\ Finish(p, Reply("create", l.r, 200, ""))
        /\ UNCHANGED <<medicines, requests, now>>

\* await Request.findById(requestId).populate('medicine').populate('requester')
AcceptFindById(p, u, r, msg) ==
    /\ inflight[p].pc = "idle"
    /\ Room
    /\ IF r \notin DOMAIN requests
       THEN Finish(p, Reply("accept", r, 404, "Request not found"))
       ELSE IF requests[r].donor # u
       THEN Finish(p, Reply("accept", r, 403, "Unauthorized to accept this request"))
       ELSE /\ inflight' = [inflight EXCEPT ![p] =
                   [pc |-> "accept_save", r |-> r, msg |-> msg,
                    req |-> requests[r], med |-> medicines[requests[r].medicine]]]
            /\ UNCHANGED response
    /\ UNCHANGED <<medicines, requests, notifications, now>>

\* await request.save(); newQuantity === 0 needs no further read
AcceptSave(p) ==
    LET l == inflight[p]
        newQuantity == AcceptQuantity(l.med, l.req)
    IN  /\ l.pc = "accept_save"
        /\ requests' = [requests EXCEPT ![l.r] =
               SaveRequest(@, l.req, AcceptRequest(l.req, l.msg))]
        /\ inflight' = [inflight EXCEPT ![p] =
               IF newQuantity = 0
               THEN [pc |-> "accept_medicine", r |-> l.r, req |-> l.req, med |-> l.med,
                     status |-> AcceptStatus(newQuantity, {})]
               ELSE [pc |-> "accept_find", r |-> l.r, req |-> l.req, med |-> l.med]]
        /\ UNCHANGED <<medicines, notifications, now, response>>

\* await Request.find({ medicine, status in Pending/Accepted, _id: { $ne } })
AcceptFind(p) ==
    LET l == inflight[p]
        others == FindNonTerminal(requests, l.req.medicine) \ {l.r}
    IN  /\ l.pc = "accept_find"
        /\ inflight' = [inflight EXCEPT ![p] =
               [pc |-> "accept_medicine", r |-> l.r, req |-> l.req, med |-> l.med,
                status |-> AcceptStatus(AcceptQuantity(l.med, l.req), others)]]
        /\ UNCHANGED <<medicines, requests, notifications, now, response>>

\* await medicine.save()
AcceptMedicineSave(p) ==
    LET l == inflight[p]
        newQuantity == AcceptQuantity(l.med, l.req)
    IN  /\ l.pc = "accept_medicine"
        /\ IF MedicineValid(newQuantity)
           THEN /\ medicines' = [medicines EXCEPT ![l.req.medicine] =
                       SaveMedicine(@, l.med, newQuantity, l.status)]
                /\ inflight' = [inflight EXCEPT ![p] =
                       [pc |-> "accept_notify", r |-> l.r, req |-> l.req, med |-> l.med]]
                /\ UNCHANGED response
           ELSE /\ Finish(p, Reply("accept", l.r, 500, "Error accepting request"))
                /\ UNCHANGED medicines
        /\ UNCHANGED <<requests, notifications, now>>

\* await Notification.create({ type: 'request_accepted', ... })
AcceptNotify(p) ==
    LET l == inflight[p]
    IN  /\ l.pc = "accept_notify"
        /\ notifications' = Notify(notifications,
               {Notice("request_accepted", l.req.requester, 0, l.r)})
        /\ Finish(p, Reply("accept", l.r, 200, ""))
        /\ UNCHANGED <<medicines, requests, now>>

Steps ==
    \/ \E p \in 1..MaxProcs, u \in Users, m \in 1..MaxMedicines, q \in (-1)..MaxQty :
          CreateFindById(p, u, m, q)
    \/ \E p \in 1..MaxProcs : CreateFind(p)
    \/ \E p \in 1..MaxProcs : CreateFindOne(p)
    \/ \E p \in 1..MaxProcs : CreateSave(p)
    \/ \E p \in 1..MaxProcs : CreateMedicineSave(p)
    \/ \E p \in 1..MaxProcs : CreateNotify(p)
    \/ \E p \in 1..MaxProcs, u \in Users, r \in 1..MaxRequests, msg \in Messages :
          AcceptFindById(p, u, r, msg)
    \/ \E p \in 1..MaxProcs : AcceptSave(p)
    \/ \E p \in 1..MaxProcs : AcceptFind(p)
    \/ \E p \in 1..MaxProcs : AcceptMedicineSave(p)
    \/ \E p \in 1..MaxProcs : AcceptNotify(p)

NextConc ==
    \/ \E u \in Donors, q \in 0..MaxQty, e \in 0..(MaxTime + 1) : Donate(u, q, e)
    \/ Steps

SpecConc == Init /\ [][NextConc]_vars

\* ------------------------------------------------------- DELETE /donate/:id
\* await Medicine.findOne({ _id: medicineId, donor: userId })
DeleteFindOne(p, u, m) ==
    /\ inflight[p].pc = "idle"
    /\ IF m \notin DOMAIN medicines \/ medicines[m].donor # u
       THEN Finish(p, Reply("delete", m, 404, "Medicine not found or unauthorized"))
       ELSE /\ inflight' = [inflight EXCEPT ![p] = [pc |-> "delete_count", m |-> m]]
            /\ UNCHANGED response
    /\ UNCHANGED <<medicines, requests, notifications, now>>

\* await Request.countDocuments({ medicine, status in Pending/Accepted })
DeleteCount(p) ==
    LET l == inflight[p]
    IN  /\ l.pc = "delete_count"
        /\ IF Cardinality(FindNonTerminal(requests, l.m)) > 0
           THEN Finish(p, Reply("delete", l.m, 400,
                                "Cannot delete medicine with pending requests. Please contact support."))
           ELSE /\ inflight' = [inflight EXCEPT ![p] = [pc |-> "delete_remove", m |-> l.m]]
                /\ UNCHANGED response
        /\ UNCHANGED <<medicines, requests, notifications, now>>

\* the Medicine collection without document m, the newest one
FindByIdAndDelete(meds, m) == SubSeq(meds, 1, m - 1)

\* await Medicine.findByIdAndDelete(medicineId), which removes nothing when
\* the document is already gone
DeleteRemove(p) ==
    LET l == inflight[p]
    IN  /\ l.pc = "delete_remove"
        /\ medicines' = IF l.m \in DOMAIN medicines
                        THEN FindByIdAndDelete(medicines, l.m)
                        ELSE medicines
        /\ Finish(p, Reply("delete", l.m, 200, ""))
        /\ UNCHANGED <<requests, notifications, now>>

\* a medicine was donated at some time, deleted since or not
EverDonated ==
    \E n \in BagToSet(notifications) : n.type = "medicine_donated"

\* POST /donate of the first medicine, whose _id no other document ever has
DonateFirst(u, q, e) ==
    /\ ~EverDonated
    /\ Donate(u, q, e)

NextDelete ==
    \/ \E u \in Donors, q \in 1..MaxQty : DonateFirst(u, q, MaxTime + 1)
    \/ \E p \in 1..MaxProcs, u \in Users, m \in 1..MaxMedicines, q \in 1..MaxQty :
          CreateFindById(p, u, m, q)
    \/ \E p \in 1..MaxProcs : CreateFind(p)
    \/ \E p \in 1..MaxProcs : CreateFindOne(p)
    \/ \E p \in 1..MaxProcs : CreateSave(p)
    \/ \E p \in 1..MaxProcs : CreateMedicineSave(p)
    \/ \E p \in 1..MaxProcs : CreateNotify(p)
    \/ \E p \in 1..MaxProcs, u \in Users, m \in 1..MaxMedicines : DeleteFindOne(p, u, m)
    \/ \E p \in 1..MaxProcs : DeleteCount(p)
    \/ \E p \in 1..MaxProcs : DeleteRemove(p)

SpecDelete == Init /\ [][NextDelete]_vars

\* ---------------------------------------------------------- PUT /donate/:id
\* await Medicine.findOne({ _id: medicineId, donor: userId })
EditFindOne(p, u, m, q) ==
    /\ inflight[p].pc = "idle"
    /\ IF m \notin DOMAIN medicines \/ medicines[m].donor # u
       THEN Finish(p, Reply("edit", m, 404, "Medicine not found or unauthorized"))
       ELSE /\ inflight' = [inflight EXCEPT ![p] =
                   [pc |-> "edit_exists", m |-> m, q |-> q, med |-> medicines[m]]]
            /\ UNCHANGED response
    /\ UNCHANGED <<medicines, requests, notifications, now>>

\* Request.exists({ medicine: medicineId }): a request in any status
HasRequests(reqs, m) == \E r \in DOMAIN reqs : reqs[r].medicine = m

\* await Request.exists({ medicine: medicineId })
EditExists(p) ==
    LET l == inflight[p]
    IN  /\ l.pc = "edit_exists"
        /\ IF HasRequests(requests, l.m)
           THEN Finish(p, Reply("edit", l.m, 400,
                                "Cannot edit medicine that has requests. Please contact support."))
           ELSE /\ inflight' = [inflight EXCEPT ![p] = [l EXCEPT !.pc = "edit_save"]]
                /\ UNCHANGED response
        /\ UNCHANGED <<medicines, requests, notifications, now>>

\* medicine.quantity = parseInt(quantity); await medicine.save()
EditSave(p) ==
    LET l == inflight[p]
    IN  /\ l.pc = "edit_save"
        /\ IF MedicineValid(l.q)
           THEN /\ medicines' = [medicines EXCEPT ![l.m] =
                       SaveMedicine(@, l.med, l.q, l.med.status)]
                /\ Finish(p, Reply("edit", l.m, 200, ""))
           ELSE /\ Finish(p, Reply("edit", l.m, 500, "Failed to update donation"))
                /\ UNCHANGED medicines
        /\ UNCHANGED <<requests, notifications, now>>

NextEdit ==
    \/ \E u \in Donors, q \in 1..MaxQty : DonateFirst(u, q, MaxTime + 1)
    \/ \E p \in 1..MaxProcs, u \in Users, m \in 1..MaxMedicines, q \in 1..MaxQty :
          CreateFindById(p, u, m, q)
    \/ \E p \in 1..MaxProcs : CreateFind(p)
    \/ \E p \in 1..MaxProcs : CreateFindOne(p)
    \/ \E p \in 1..MaxProcs : CreateSave(p)
    \/ \E p \in 1..MaxProcs : CreateMedicineSave(p)
    \/ \E p \in 1..MaxProcs : CreateNotify(p)
    \/ \E p \in 1..MaxProcs, u \in Users, m \in 1..MaxMedicines, q \in 0..MaxQty :
          EditFindOne(p, u, m, q)
    \/ \E p \in 1..MaxProcs : EditExists(p)
    \/ \E p \in 1..MaxProcs : EditSave(p)

SpecEdit == Init /\ [][NextEdit]_vars

\* ------------------------------------------------------------------------
\* The pages that show a medicine's display status.  They read the
\* collections and write nothing.

\* res.json({ medicines | donations | donation })
Shown(op, target, code, error, listings) ==
    [op |-> op, target |-> target, code |-> code, error |-> error,
     listings |-> listings]

\* a GET handler: it answers and leaves the collections as they are
View(reply) ==
    /\ response' = reply
    /\ UNCHANGED <<medicines, requests, notifications, now, inflight>>

\* GET /browse: displayStatus of one medicine
BrowseDisplayStatus(med, pendingRequests, availableQuantity, t) ==
    IF med.expiry <= t THEN "Expired"
    ELSE IF availableQuantity = 0 THEN "Stock Finished"
    ELSE IF pendingRequests # {} THEN "Requested"
    ELSE "Available"

\* GET /browse: Medicine.find(query); a search term replaces the $or on status
BrowseQuery(meds, u, search) ==
    {m \in DOMAIN meds :
        /\ meds[m].donor # u
        /\ search \/ meds[m].status \in {"Available", "Requested"}}

\* GET /browse: medicinesWithAvailability
BrowseListing(S, m) ==
    LET med == S.medicines[m]
        pendingRequests == FindNonTerminal(S.requests, m)
        totalRequestedQuantity == SumQuantity(S.requests, pendingRequests)
        availableQuantity == Max0(med.quantity - totalRequestedQuantity)
    IN  [medicine |-> m, remainingQuantity |-> availableQuantity,
         displayStatus |-> BrowseDisplayStatus(med, pendingRequests,
                                               availableQuantity, S.now)]

\* GET /browse: medicinesForResponse keeps availableQuantity > 0
BrowseHandler(S, u, search) ==
    Shown("browse", 0, 200, "",
          {l \in {BrowseListing(S, m) : m \in BrowseQuery(S.medicines, u, search)} :
              l.remainingQuantity > 0})

Browse(u, search) ==
    /\ AllIdle
    /\ View(BrowseHandler(Store, u, search))

\* GET /api/donations/history: displayStatus of one donation
HistoryDisplayStatus(donation, pendingRequests, remainingQuantity, t) ==
    IF donation.expiry <= t THEN "Expired"
    ELSE IF remainingQuantity = 0 THEN "Stock Finished"
    ELSE IF pendingRequests # {} THEN "Requested"
    ELSE "Available"

\* GET /api/donations/history: donationsWithRequests
HistoryListing(S, m) ==
    LET donation == S.medicines[m]
        pendingRequests == FindNonTerminal(S.requests, m)
        totalRequestedQuantity == SumQuantity(S.requests, pendingRequests)
        remainingQuantity == Max0(donation.quantity - totalRequestedQuantity)
    IN  [medicine |-> m, remainingQuantity |-> remainingQuantity,
         displayStatus |-> HistoryDisplayStatus(donation, pendingRequests,
                                                remainingQuantity, S.now)]

\* query = { donor: userId }, and query.status = status unless it is 'all'
HistoryHandler(S, u, status) ==
    Shown("history", 0, 200, "",
          {HistoryListing(S, m) : m \in
              {d \in DOMAIN S.medicines :
                  /\ S.medicines[d].donor = u
                  /\ status = "all" \/ S.medicines[d].status = status}})

History(u, status) ==
    /\ AllIdle
    /\ View(HistoryHandler(Store, u, status))

\* the tie-break of GET /api/donations/:donationId with stock before expiry
DetailsDisplayStatusStockFirst(donation, pendingRequests, remainingQuantity, t) ==
    IF remainingQuantity = 0 THEN "Stock Finished"
    ELSE IF donation.expiry <= t THEN "Expired"
    ELSE IF pendingRequests # {} THEN "Requested"
    ELSE "Available"

\* GET /api/donations/:donationId: displayStatus
DetailsDisplayStatus(donation, pendingRequests, remainingQuantity, t) ==
    IF donation.expiry <= t THEN "Expired"
    ELSE IF remainingQuantity = 0 THEN "Stock Finished"
    ELSE IF pendingRequests # {} THEN "Requested"
    ELSE "Available"

\* GET /api/donations/:donationId: donationWithCounts
DetailsListing(S, m) ==
    LET donation == S.medicines[m]
        pendingRequests == FindNonTerminal(S.requests, m)
        totalRequestedQuantity == SumQuantity(S.requests, pendingRequests)
        remainingQuantity == Max0(donation.quantity - totalRequestedQuantity)
    IN  [medicine |-> m, remainingQuantity |-> remainingQuantity,
         displayStatus |-> DetailsDisplayStatus(donation, pendingRequests,
                                                remainingQuantity, S.now)]

DetailsHandler(S, u, m) ==
    IF m \notin DOMAIN S.medicines \/ S.medicines[m].donor # u
    THEN Shown("details", m, 404, "Donation not found", {})
    ELSE Shown("details", m, 200, "", {DetailsListing(S, m)})

Details(u, m) ==
    /\ AllIdle
    /\ View(DetailsHandler(Store, u, m))

\* the history page's status filter as the client sends it
HistoryFilters == {"all", "Requested"}

Views ==
    \/ \E u \in Users, search \in BOOLEAN : Browse(u, search)
    \/ \E u \in Users, status \in HistoryFilters : History(u, status)
    \/ \E u \in Users, m \in 1..MaxMedicines : Details(u, m)

NextView == Next \/ Views

SpecView == Init /\ [][NextView]_vars

\* ------------------------------------------------------------------------
\* The worked scenarios: one medicine of a larger quantity, requested,
\* accepted and rejected, each handler run to completion.
NextScenario ==
    \/ \E u \in Donors, q \in 1..MaxScenarioQty : Donate(u, q, MaxTime + 1)
    \/ \E u \in Users, m \in 1..MaxMedicines, q \in 1..MaxScenarioQty : Create(u, m, q)
    \/ \E u \in Donors, r \in 1..MaxRequests, msg \in Messages : Accept(u, r, msg)
    \/ \E u \in Donors, r \in 1..MaxRequests, msg \in Messages : Reject(u, r, msg)

SpecScenario == Init /\ [][NextScenario]_vars

\* ------------------------------------------------------------------------
\* Stores with several medicines, built by the handlers themselves.

\* the collections before the first request
EmptyStore == [medicines |-> <<>>, requests |-> <<>>,
               notifications |-> EmptyBag, now |-> 0]

\* the store a handler finds after another one left `out` at time t
Then(out, t) == [medicines |-> out.medicines, requests |-> out.requests,
                 notifications |-> out.notifications, now |-> t]

\* POST /donate of one item [donor, quantity, expiry] as the m-th medicine
DonatedAs(item, m) ==
    DonateHandler([EmptyStore EXCEPT !.medicines = [i \in 1..(m - 1) |-> item]],
                  item.donor, item.quantity, item.expiry)

\* POST /donate once for every item [donor, quantity, expiry], in order
Donated(items) ==
    Result([m \in DOMAIN items |-> DonatedAs(items[m], m).medicines[m]],
           <<>>,
           SetToBag(UNION {BagToSet(DonatedAs(items[m], m).notifications) :
                              m \in DOMAIN items}),
           DonatedAs(items[Len(items)], Len(items)).response)

\* the shelves: MaxShelf or fewer medicines of quantity 1 or 2, the first
\* from u1 and the others from u1 or u2, none expiring within MaxTime
Shelves ==
    UNION {[1..n -> [donor : {"u1", "u2"}, quantity : 1..2, expiry : {MaxTime + 1}]]
              : n \in 1..MaxShelf}

InitShelf ==
    /\ \E items \in Shelves :
          /\ items[1].donor = "u1"
          /\ medicines = Donated(items).medicines
          /\ notifications = Donated(items).notifications
          /\ response = Donated(items).response
    /\ requests = <<>>
    /\ now = 0
    /\ inflight = [p \in 1..MaxProcs |-> Idle]

\* the request operations on the medicines of the shelf
NextShelf ==
    \/ \E u \in Users, m \in 1..MaxShelf, q \in 0..2 : Create(u, m, q)
    \/ \E u \in Users, r \in 1..MaxRequests, msg \in Messages : Accept(u, r, msg)
    \/ \E u \in Users, r \in 1..MaxRequests, msg \in Messages : Reject(u, r, msg)
    \/ \E u \in Users, r \in 1..MaxRequests : Complete(u, r)
    \/ \E u \in Users, r \in 1..MaxRequests : Cancel(u, r)
    \/ \E u \in Users, r \in 1..MaxRequests : CancelPage(u, r)

SpecShelf == InitShelf /\ [][NextShelf]_vars

\* ------------------------------------------------------------------------
\* Database calls that throw.  Every request handler is one try block and one
\* catch block; it writes in the order request.save(), medicine.save(),
\* Notification, and replies last.

Operations == {"create", "accept", "reject", "cancel", "cancelPage", "complete", "fail"}

\* the call that throws: a read before the first write, request.save(), a call
\* between request.save() and the end of medicine.save(), the Notification
\* write, or none
Faults == {"read", "request", "medicine", "notification", "none"}

\* a catch block that sends nothing
CatchWithoutReply(op, target) == Reply(NoResponse, 0, 0, "")

\* catch (error) { ... res.status(500).json({ error }) }, and for the page
\* req.flash('error', ...) with res.redirect
Catch(op, target) ==
    CASE op = "create" -> Reply(op, 0, 500, "Error processing request")
      [] op = "accept" -> Reply(op, target, 500, "Error accepting request")
      [] op = "reject" -> Reply(op, target, 500, "Error rejecting request")
      [] op = "cancel" -> Reply(op, target, 500, "Error cancelling request")
      [] op = "cancelPage" -> Reply(op, target, 302, "Error cancelling request.")
      [] op = "complete" -> Reply(op, target, 500, "Error completing donation")
      [] op = "fail" -> Reply(op, target, 500, "Error marking donation as failed")

\* the handler of an operation, run with no call throwing
Invoke(op, S, u, target, q) ==
    CASE op = "create" -> CreateHandler(S, u, target, q)
      [] op = "accept" -> AcceptHandler(S, u, target, "")
      [] op = "reject" -> RejectHandler(S, u, target, "")
      [] op = "cancel" -> CancelHandler(S, u, target)
      [] op = "cancelPage" -> CancelPageHandler(S, u, target)
      [] op = "complete" -> CompleteHandler(S, u, target)
      [] op = "fail" -> FailHandler(S, u, target, "")

\* the handler with the call k throwing: the writes before k stay, the catch
\* block replies.  A handler that returns early makes only its first read.
Faulted(S, out, op, target, k) ==
    IF k = "none" \/ (k # "read" /\ out.response.error # "")
    THEN out
    ELSE IF k \in {"read", "request"}
    THEN Refused(S, Catch(op, target))
    ELSE IF k = "medicine"
    THEN Result(S.medicines, out.requests, S.notifications, Catch(op, target))
    ELSE Result(out.medicines, out.requests, S.notifications, Catch(op, target))

\* the donor and one other user
Callers == {"u1", "u2"}

\* express calls the handler
Call(p, op, u, target, q) ==
    /\ AllIdle
    /\ BagCardinality(notifications) < MaxFaultNotifications
    /\ inflight' = [inflight EXCEPT ![p] =
           [pc |-> "handling", op |-> op, u |-> u, target |-> target, q |-> q]]
    /\ UNCHANGED <<medicines, requests, notifications, now, response>>

\* the handler runs to its reply, call k throwing
Settle(p, k) ==
    LET l == inflight[p]
        out == Faulted(Store, Invoke(l.op, Store, l.u, l.target, l.q), l.op, l.target, k)
    IN  /\ l.pc = "handling"
        /\ \A m \in DOMAIN out.medicines : out.medicines[m].quantity <= MaxQty
        /\ medicines' = out.medicines
        /\ requests' = out.requests
        /\ notifications' = out.notifications
        /\ Finish(p, out.response)
        /\ UNCHANGED now

NextFault ==
    \/ \E u \in Donors, q \in 1..2 : Donate(u, q, MaxTime + 1)
    \/ \E u \in Callers, m \in 1..MaxMedicines, q \in 0..1 :
          /\ Len(requests) < MaxFaultRequests
          /\ Call(1, "create", u, m, q)
    \/ \E op \in Operations \ {"create"}, u \in Callers, r \in 1..MaxFaultRequests :
          Call(1, op, u, r, 0)
    \/ \E p \in 1..MaxProcs, k \in Faults : Settle(p, k)

\* a database call resolves or rejects, and the handler then runs on
SpecFault ==
    /\ Init
    /\ [][NextFault]_vars
    /\ WF_vars(\E p \in 1..MaxProcs, k \in Faults : Settle(p, k))

\* ------------------------------------------------------------------------
\* GET /browse in full: distances, radius filter, sorting and the page limit.
\* The geocoder places an address on a line; the distance of two addresses is
\* the distance of their coordinates.

\* medicines.slice(0, 20)
PageSize == 20

\* null: geocodeAddress found nothing, medicine.distance = null
Null == -1

\* undefined: medicine.distance was never assigned
Undefined == -2

\* Infinity, above every distance
Infinity == 1000

\* the request to the geocoding provider threw
Throws == -3

Coordinates == 0..MaxCoordinate

\* what a request to the geocoding provider ends in: a location, no result,
\* or an exception
ProviderResults == Coordinates \cup {Null, Throws}

\* a geocodeAddress without try and catch
GeocodeAddressUncaught(result) == result

\* geocodeAddress: try { return await geocodeWith...(address) } catch { return null }
GeocodeAddress(result) == IF result = Throws THEN Null ELSE result

\* medicine.distanceFormatted was never assigned
NotFormatted == ""

\* formatDistance
FormatDistance(distance) ==
    IF distance <= 0 THEN "Distance unknown"
    ELSE IF distance < 1 THEN ToString(distance * 1000) \o " meters"
    ELSE IF distance < 10 THEN ToString(distance) \o ".0 km"
    ELSE ToString(distance) \o " km"

\* the address fields of the browsing user that are filled in
Profiles ==
    {[addressLine1 |-> TRUE, city |-> TRUE, state |-> TRUE],
     [addressLine1 |-> FALSE, city |-> TRUE, state |-> TRUE],
     [addressLine1 |-> TRUE, city |-> FALSE, state |-> TRUE],
     [addressLine1 |-> TRUE, city |-> TRUE, state |-> FALSE]}

\* an address check that looks at the address line only
UsableAddressLineOnly(user) == user.addressLine1

\* user.addressLine1 && user.city && user.state
UsableAddress(user) == user.addressLine1 /\ user.city /\ user.state

\* req.query: a search term or none, ?sort=, ?distance= and ?customDistance=
Queries ==
    [search : BOOLEAN, sort : {"distance", "newest", "oldest", "expiry"},
     distance : {"50", "all", "1"}, customDistance : {"", "2"}]

\* parseInt of the radius strings
ParseInt(str) ==
    CASE str = "1" -> 1
      [] str = "2" -> 2
      [] str = "50" -> 50

\* finalDistance: customDistance || distance, and null ("") for 'all'
FinalDistance(query) ==
    IF query.distance = "all" THEN ""
    ELSE IF query.customDistance # "" THEN query.customDistance
    ELSE query.distance

Abs(x) == IF x < 0 THEN -x ELSE x

\* calculateHaversineDistance, on the line
HaversineDistance(a, b) == Abs(a - b)

\* the truth value JavaScript gives a distance: null, undefined and 0 are falsy
Truthy(d) == d > 0

\* what the provider answers for the address of each user, as far as the
\* browse of u depends on it: u at coordinate 0 or failing, and no answer for
\* the others when it fails for u
Geocoders(u) ==
    {geo \in [Users -> ProviderResults] :
        /\ geo[u] \in {0, Null, Throws}
        /\ u = "u3" \/ geo["u3"] = Null
        /\ geo[u] \in {Null, Throws} => \A v \in Users \ {u} : geo[v] = Null}

RECURSIVE Descending(_)
\* .sort({ createdAt: -1 }): the _ids, newest first
Descending(ids) ==
    IF ids = {} THEN <<>>
    ELSE LET newest == CHOOSE m \in ids : \A o \in ids : o <= m
         IN  <<newest>> \o Descending(ids \ {newest})

\* Medicine.find(query).populate('donor').sort({ createdAt: -1 })
BrowseFind(S, u, search) ==
    LET ids == Descending(BrowseQuery(S.medicines, u, search))
    IN  [i \in DOMAIN ids |->
            [medicine |-> ids[i], createdAt |-> ids[i],
             expiry |-> S.medicines[ids[i]].expiry,
             donor |-> S.medicines[ids[i]].donor, distance |-> Undefined,
             distanceFormatted |-> NotFormatted]]

\* calculateDistances: the distance of one medicine; an exception of the
\* medicine's geocodeAddress is caught inside the loop
MedicineDistance(userCoordinates, medicineCoordinates) ==
    IF userCoordinates = Null \/ medicineCoordinates \in {Null, Throws} THEN Null
    ELSE HaversineDistance(userCoordinates, medicineCoordinates)

\* calculateDistances(medicines, userAddress), whose own geocodeAddress of
\* the user's address is in no try block
CalculateDistances(rows, u, geo) ==
    [i \in DOMAIN rows |->
        LET distance == MedicineDistance(GeocodeAddress(geo[u]),
                                         GeocodeAddress(geo[rows[i].donor]))
        IN  [rows[i] EXCEPT !.distance = distance,
                            !.distanceFormatted = FormatDistance(distance)]]

\* the addresses calculateDistances sends to geocodeAddress
Geocoded(rows, u, geo) ==
    IF GeocodeAddress(geo[u]) \in {Null, Throws} THEN {u}
    ELSE {u} \cup {rows[i].donor : i \in DOMAIN rows}

\* the comparators of medicines.sort(...), as the key they order by
SortKey(row, sort) ==
    CASE sort = "distance" -> IF Truthy(row.distance) THEN row.distance ELSE Infinity
      [] sort = "newest" -> 0 - row.createdAt
      [] sort = "oldest" -> row.createdAt
      [] sort = "expiry" -> row.expiry

RECURSIVE InsertByKey(_, _, _)
\* row put behind the rows whose key is not greater than its own
InsertByKey(sorted, row, sort) ==
    IF sorted = <<>> THEN <<row>>
    ELSE IF SortKey(sorted[Len(sorted)], sort) <= SortKey(row, sort)
    THEN Append(sorted, row)
    ELSE Append(InsertByKey(SubSeq(sorted, 1, Len(sorted) - 1), row, sort),
                sorted[Len(sorted)])

RECURSIVE SortRows(_, _)
\* Array.prototype.sort: stable, rows of equal key keep their order
SortRows(rows, sort) ==
    IF rows = <<>> THEN <<>>
    ELSE InsertByKey(SortRows(SubSeq(rows, 1, Len(rows) - 1), sort),
                     rows[Len(rows)], sort)

\* medicine.distance && medicine.distance <= maxDistance
WithinDistance(row, maxDistance) == Truthy(row.distance) /\ row.distance <= maxDistance

\* the rows after the distance block and the switch on sort
RankRows(rows, user, u, query, geo) ==
    LET located == IF UsableAddress(user) THEN CalculateDistances(rows, u, geo) ELSE rows
        Near(row) == WithinDistance(row, ParseInt(FinalDistance(query)))
        within == IF UsableAddress(user) /\ FinalDistance(query) # ""
                  THEN SelectSeq(located, Near)
                  ELSE located
        nearest == IF UsableAddress(user) /\ query.sort = "distance"
                   THEN SortRows(within, "distance")
                   ELSE within
    IN  IF query.sort \in {"newest", "oldest", "expiry"}
        THEN SortRows(nearest, query.sort)
        ELSE nearest

\* medicines.slice(0, 20)
Slice(rows) == SubSeq(rows, 1, IF Len(rows) < PageSize THEN Len(rows) ELSE PageSize)

\* GET /browse: the page, the session user, the filters and the user's
\* location as rendered, and the addresses that were sent to the geocoder
RankedBrowseHandler(S, user, u, query, geo) ==
    LET found == BrowseFind(S, u, query.search)
        thrown == UsableAddress(user) /\ GeocodeAddress(geo[u]) = Throws
        page == IF thrown THEN <<>> ELSE Slice(RankRows(found, user, u, query, geo))
        medicinesWithAvailability ==
            [i \in DOMAIN page |->
                [medicine |-> page[i].medicine,
                 distance |-> page[i].distance,
                 distanceFormatted |-> page[i].distanceFormatted,
                 remainingQuantity |-> BrowseListing(S, page[i].medicine).remainingQuantity,
                 displayStatus |-> BrowseListing(S, page[i].medicine).displayStatus]]
        Left(l) == l.remainingQuantity > 0
    IN  [op |-> "browse", target |-> 0,
         code |-> IF thrown THEN 302 ELSE 200,
         error |-> IF thrown THEN "Error loading medicines." ELSE "",
         listings |-> SelectSeq(medicinesWithAvailability, Left),
         user |-> [id |-> u, addressLine1 |-> user.addressLine1,
                   city |-> user.city, state |-> user.state],
         currentFilters |-> query,
         userLocation |-> UsableAddress(user),
         geocoded |-> IF UsableAddress(user)
                      THEN [a \in Geocoded(found, u, geo) |-> GeocodeAddress(geo[a])]
                      ELSE [a \in {} |-> Null]]

\* one GET /browse on the catalogue
BrowseRanked(user, u, query, geo) ==
    /\ AllIdle
    /\ response.op # "browse"
    /\ View(RankedBrowseHandler(Store, user, u, query, geo))

\* the catalogues: 2, 3 or one more than a page of medicines of quantity 1,
\* all from u1 or from u1 and u2 in turn, expiring at two dates in turn
CatalogueSizes == {2, 3, PageSize + 1}

Catalogue(n, shared) ==
    Donated([i \in 1..n |->
                [donor |-> IF shared /\ i % 2 = 0 THEN "u2" ELSE "u1",
                 quantity |-> 1,
                 expiry |-> MaxTime + 1 + (i % 2)]])

\* a catalogue, and u3's request for the whole of medicine m unless m = 0
InitBrowse ==
    /\ \E n \in CatalogueSizes, shared \in BOOLEAN :
          \E m \in {0, 1, n} :
             LET shelf == Catalogue(n, shared)
                 out == IF m = 0 THEN shelf
                        ELSE CreateHandler(Then(shelf, 0), "u3", m, 1)
             IN  /\ medicines = out.medicines
                 /\ requests = out.requests
                 /\ notifications = out.notifications
                 /\ response = out.response
    /\ now = 0
    /\ inflight = [p \in 1..MaxProcs |-> Idle]

NextBrowse ==
    \E user \in Profiles, u \in {"u2", "u3"}, query \in Queries :
        \E geo \in IF UsableAddress(user) THEN Geocoders(u)
                   ELSE {[v \in Users |-> Null]} :
            BrowseRanked(user, u, query, geo)

SpecBrowse == InitBrowse /\ [][NextBrowse]_vars

\* ------------------------------------------------------------------------
\* calculateHaversineDistance in floating point.  A number is kept to three
\* decimal places (an integer count of thousandths) and every arithmetic
\* operation and every Math.sin and Math.cos rounds its exact result to the
\* nearest such number, as the operations on doubles round to the nearest
\* double.  Angles are whole multiples of 5 degrees.

\* thousandths in 1
Scale == 1000

\* Math.PI, rounded
Pi == 3142

\* const R = 6371
EarthRadius == 6371

\* NaN
NaN == -1

\* n / d rounded to the nearest integer
Rounded(n, d) == (2 * n + d) \div (2 * d)

\* the product of two numbers, rounded
Times(x, y) == Rounded(x * y, Scale)

\* Math.sin of 0, 5, ..., 90 degrees, rounded
SinTable ==
    <<0, 87, 174, 259, 342, 423, 500, 574, 643, 707, 766, 819, 866, 906, 940,
      966, 985, 996, 1000>>

RECURSIVE Sin(_)
\* Math.sin of a multiple of 5 degrees
Sin(deg) ==
    IF deg < 0 THEN 0 - Sin(0 - deg)
    ELSE IF deg >= 360 THEN Sin(deg - 360)
    ELSE IF deg > 180 THEN 0 - Sin(deg - 180)
    ELSE IF deg > 90 THEN Sin(180 - deg)
    ELSE SinTable[deg \div 5 + 1]

\* Math.cos of a multiple of 5 degrees
Cos(deg) == Sin(deg + 90)

\* a = sin(dLat/2)^2 + cos(lat1) * cos(lat2) * sin(dLon/2)^2, left to right
HaversineA(lat1, lon1, lat2, lon2) ==
    Times(Sin((lat2 - lat1) \div 2), Sin((lat2 - lat1) \div 2))
    + Times(Times(Times(Cos(lat1), Cos(lat2)), Sin((lon2 - lon1) \div 2)),
            Sin((lon2 - lon1) \div 2))

\* 2 * Math.atan2(Math.sqrt(a), Math.sqrt(1 - a)) in degrees: twice the angle
\* whose squared sine is nearest to a; Math.sqrt of a negative number is NaN
\* and so is everything computed from it
CentralAngle(a) ==
    IF a > Scale \/ a < 0 THEN NaN
    ELSE LET Miss(k) == Abs(Times(SinTable[k + 1], SinTable[k + 1]) - a)
             half == CHOOSE k \in 0..18 :
                        \A o \in 0..18 : Miss(k) < Miss(o) \/ (Miss(k) = Miss(o) /\ k <= o)
         IN  2 * 5 * half

\* calculateHaversineDistance, in km
CalculateHaversineDistance(lat1, lon1, lat2, lon2) ==
    LET angle == CentralAngle(HaversineA(lat1, lon1, lat2, lon2))
    IN  IF angle = NaN THEN NaN
        ELSE Rounded(EarthRadius * Rounded(angle * Pi, 180), Scale)

\* latitudes and longitudes, in degrees
Latitudes == {10 * k : k \in (-9)..9}

Longitudes == {-180, -90, -20, 0, 30, 90, 180}

\* a call of calculateHaversineDistance waits in task 1
InitHaversine ==
    /\ medicines = <<>>
    /\ requests = <<>>
    /\ notifications = EmptyBag
    /\ now = 0
    /\ response = Reply("none", 0, 0, "")
    /\ \E lat1, lat2 \in Latitudes, lon1, lon2 \in Longitudes :
          inflight = [p \in 1..MaxProcs |->
                         IF p = 1
                         THEN [pc |-> "haversine", lat1 |-> lat1, lon1 |-> lon1,
                               lat2 |-> lat2, lon2 |-> lon2]
                         ELSE Idle]

\* the call returns
Haversine(p) ==
    LET l == inflight[p]
    IN  /\ l.pc = "haversine"
        /\ response' = [op |-> "haversine", target |-> 0, code |-> 0, error |-> "",
                        lat1 |-> l.lat1, lon1 |-> l.lon1,
                        lat2 |-> l.lat2, lon2 |-> l.lon2,
                        distance |-> CalculateHaversineDistance(l.lat1, l.lon1,
                                                                l.lat2, l.lon2)]
        /\ inflight' = [inflight EXCEPT ![p] = Idle]
        /\ UNCHANGED <<medicines, requests, notifications, now>>

NextHaversine == \E p \in 1..MaxProcs : Haversine(p)

SpecHaversine == InitHaversine /\ [][NextHaversine]_vars

\* ------------------------------------------------------------------------
\* Properties

\* the store a handler finds after another handler left `out`
After(out) == [medicines |-> out.medicines, requests |-> out.requests,
               notifications |-> out.notifications, now |-> now]

NonTerminalSum(m) == SumQuantity(requests, FindNonTerminal(requests, m))

Terminal == {"Completed", "Rejected", "Cancelled", "Failed"}

\* C1: for every medicine the quantities of its Pending and Accepted requests
\* sum to at most the quantity the medicine was donated with.
C1_NonTerminalSumWithinDonated ==
    \A m \in DOMAIN medicines : NonTerminalSum(m) <= medicines[m].donated

C3_OneNonTerminalPerPair ==
    \A i, j \in DOMAIN requests :
        (/\ i # j
         /\ requests[i].requester = requests[j].requester
         /\ requests[i].medicine = requests[j].medicine
         /\ requests[i].status \in NonTerminal)
        => requests[j].status \notin NonTerminal

\* C4: a request is created Pending; its status leaves Pending only to
\* Accepted, Rejected or Cancelled and leaves Accepted only to Completed,
\* Failed or Rejected.
C4_LegalTransitions ==
    [][/\ \A r \in DOMAIN requests' \ DOMAIN requests : requests'[r].status = "Pending"
       /\ \A r \in DOMAIN requests :
             /\ requests[r].status = "Pending" =>
                   requests'[r].status \in {"Pending", "Accepted", "Rejected", "Cancelled"}
             /\ requests[r].status = "Accepted" =>
                   requests'[r].status \in {"Accepted", "Completed", "Failed", "Rejected"}
      ]_vars

\* C5: once a request is Completed, Rejected, Cancelled or Failed, no step
\* changes it: status, donorResponse and completedAt stay as they are.
C5_TerminalImmutable ==
    [][\A r \in DOMAIN requests :
          requests[r].status \in Terminal => requests'[r] = requests[r]]_vars

\* C6: the step in which a request enters Accepted decrements the medicine's
\* quantity by the request's quantity, the step in which an Accepted request
\* becomes Rejected increments it by the same amount, and the step from
\* Accepted to Completed leaves it as it is.
C6_QuantityFollowsAccepted ==
    [][\A r \in DOMAIN requests :
          LET m == requests[r].medicine
              q == requests[r].quantity
              from == requests[r].status
              to == requests'[r].status
          IN  /\ (from # "Accepted" /\ to = "Accepted") =>
                     medicines'[m].quantity = medicines[m].quantity - q
              /\ (from = "Accepted" /\ to = "Rejected") =>
                     medicines'[m].quantity = medicines[m].quantity + q
              /\ (from = "Accepted" /\ to = "Completed") =>
                     medicines'[m].quantity = medicines[m].quantity
      ]_vars

\* C7: an accept by the donor of a request that is already Accepted is refused
\* and leaves the medicine's quantity as the first accept left it.
C7_SecondAcceptRefused ==
    [][\A r \in DOMAIN requests, msg \in Messages :
          (requests[r].status = "Accepted" /\ Accept(requests[r].donor, r, msg)) =>
              /\ response'.code # 200
              /\ medicines'[requests[r].medicine].quantity
                    = medicines[requests[r].medicine].quantity
      ]_vars

\* C8: for every Pending request, the donor's accept followed by the donor's
\* reject of the request so accepted leaves the medicine's quantity at its
\* value before the accept.
C8_AcceptRejectRoundTrip ==
    \A r \in DOMAIN requests, msg \in Messages :
        requests[r].status = "Pending" =>
            LET u == requests[r].donor
                m == requests[r].medicine
                accepted == AcceptHandler(Store, u, r, msg)
                rejected == RejectHandler(After(accepted), u, r, msg)
            IN  accepted.requests[r].status = "Accepted" =>
                    rejected.medicines[m].quantity = medicines[m].quantity

\* C9: an accept of a Pending request whose quantity exceeds the medicine's
\* remaining quantity, computed without the request itself, is refused and
\* changes neither the request's status nor the medicine's quantity.
C9_AcceptRefusedWhenInsufficient ==
    [][\A r \in DOMAIN requests, msg \in Messages :
          LET m == requests[r].medicine
              others == FindNonTerminal(requests, m) \ {r}
              remaining == RemainingQuantity(medicines[m].quantity,
                                             SumQuantity(requests, others))
          IN  (/\ requests[r].status = "Pending"
               /\ requests[r].quantity > remaining
               /\ Accept(requests[r].donor, r, msg)) =>
                  /\ response'.code = 400
                  /\ requests'[r].status = requests[r].status
                  /\ medicines'[m].quantity = medicines[m].quantity
      ]_vars

\* C10: when two accepts of two different Pending requests of one medicine
\* have both written the medicine, the stored quantity is the quantity the
\* earlier of them read minus both request quantities.
C10_ConcurrentAcceptsSerial ==
    \A p1, p2 \in DOMAIN inflight :
        LET l1 == inflight[p1]
            l2 == inflight[p2]
        IN  (/\ p1 # p2
             /\ l1.pc = "accept_notify"
             /\ l2.pc = "accept_notify"
             /\ l1.r # l2.r
             /\ l1.req.medicine = l2.req.medicine
             /\ l1.req.status = "Pending"
             /\ l2.req.status = "Pending") =>
                medicines[l1.req.medicine].quantity
                    = (IF l1.med.quantity > l2.med.quantity
                       THEN l1.med.quantity ELSE l2.med.quantity)
                      - l1.req.quantity - l2.req.quantity

\* C11: an accept of a Pending request and a reject of an Accepted request are
\* all or nothing: the step leaves the request Accepted exactly when it has
\* decremented the medicine's quantity by the request's quantity, and leaves
\* it Rejected exactly when it has restored that quantity.
C11_AcceptRejectOneUnit ==
    [][\A r \in DOMAIN requests, msg \in Messages :
          LET m == requests[r].medicine
              q == requests[r].quantity
              u == requests[r].donor
          IN  /\ (requests[r].status = "Pending" /\ Accept(u, r, msg)) =>
                     (requests'[r].status = "Accepted"
                         <=> medicines'[m].quantity = medicines[m].quantity - q)
              /\ (requests[r].status = "Accepted" /\ Reject(u, r, msg)) =>
                     (requests'[r].status = "Rejected"
                         <=> medicines'[m].quantity = medicines[m].quantity + q)
      ]_vars

\* the status the ledger derives from a quantity and the live requests
DerivedStatus(quantity, reqs, m) ==
    LET live == FindNonTerminal(reqs, m)
    IN  IF Max0(quantity - SumQuantity(reqs, live)) = 0 THEN "Stock Finished"
        ELSE IF live # {} THEN "Requested"
        ELSE "Available"

\* the request operations that succeeded from a status the state machine allows
CompletedOperation(r) ==
    /\ response'.code = 200
    /\ response'.target = r
    /\ \/ response'.op = "create" /\ r \notin DOMAIN requests
       \/ /\ r \in DOMAIN requests
          /\ \/ response'.op = "accept" /\ requests[r].status = "Pending"
             \/ response'.op = "reject" /\ requests[r].status \in NonTerminal
             \/ response'.op = "cancel" /\ requests[r].status = "Pending"
             \/ response'.op = "complete" /\ requests[r].status = "Accepted"

\* C12: after a successful create, accept, reject of a Pending or Accepted
\* request, cancel or complete, the stored status of the request's medicine
\* (not expired) is the one derived from its quantity and its Pending and
\* Accepted requests.
C12_StatusMatchesDerived ==
    [][\A r \in DOMAIN requests' :
          LET m == requests'[r].medicine
          IN  (CompletedOperation(r) /\ medicines'[m].expiry > now) =>
                  medicines'[m].status
                      = DerivedStatus(medicines'[m].quantity, requests', m)
      ]_vars

\* deriveDisplayStatus with its fixed precedence
DeriveDisplayStatus(m) ==
    LET live == FindNonTerminal(requests, m)
        remaining == Max0(medicines[m].quantity - SumQuantity(requests, live))
    IN  IF medicines[m].expiry <= now THEN "Expired"
        ELSE IF remaining = 0 THEN "Stock Finished"
        ELSE IF live # {} THEN "Requested"
        ELSE "Available"

\* C13: every display status that browse, the donation history and the
\* donation details return for a medicine is Expired if its expiry is not
\* after now, else Stock Finished if nothing remains, else Requested if it has
\* a Pending or Accepted request, else Available; so the three agree.  (These
\* pages write nothing, so the collections are those the page read.)
C13_DisplayStatusPrecedence ==
    [][(response' # response /\ response'.op \in {"browse", "history", "details"}) =>
           \A l \in response'.listings :
               l.displayStatus = DeriveDisplayStatus(l.medicine)]_vars

\* the details page showed an expired medicine of which nothing remains
C13_Witness ==
    /\ response.op = "details"
    /\ response.code = 200
    /\ \E l \in response.listings :
          /\ l.displayStatus = "Expired"
          /\ l.remainingQuantity = 0
          /\ medicines[l.medicine].expiry <= now
          /\ FindNonTerminal(requests, l.medicine) # {}

\* C14: when a medicine of quantity 10 has one request, Pending, for 6, the
\* donor's accept leaves quantity 4, and after it a create by another
\* requester for 5 is refused while a create for 1, 2, 3 or 4 succeeds.
C14_ScenarioRemainingAfterAccept ==
    \A msg \in Messages :
        (/\ Len(requests) = 1
         /\ requests[1].status = "Pending"
         /\ requests[1].quantity = 6
         /\ medicines[requests[1].medicine].quantity = 10) =>
            LET m == requests[1].medicine
                accepted == AcceptHandler(Store, requests[1].donor, 1, msg)
            IN  /\ accepted.medicines[m].quantity = 4
                /\ \A u \in Users \ {requests[1].donor, requests[1].requester} :
                      /\ CreateHandler(After(accepted), u, m, 5).response.code = 400
                      /\ \A q \in 1..4 :
                            CreateHandler(After(accepted), u, m, q).response.code = 200

\* C15: when a medicine of quantity 5 has one request, Pending, for 5, the
\* donor's accept succeeds and leaves quantity 0 and status Stock Finished, and
\* the donor's reject of the accepted request leaves quantity 5 and status
\* Available.
C15_ScenarioAcceptAllThenReject ==
    \A msg \in Messages :
        (/\ Len(requests) = 1
         /\ requests[1].status = "Pending"
         /\ requests[1].quantity = 5
         /\ medicines[requests[1].medicine].quantity = 5) =>
            LET m == requests[1].medicine
                accepted == AcceptHandler(Store, requests[1].donor, 1, msg)
                rejected == RejectHandler(After(accepted), requests[1].donor, 1, msg)
            IN  /\ accepted.response.code = 200
                /\ accepted.medicines[m].quantity = 0
                /\ accepted.medicines[m].status = "Stock Finished"
                /\ rejected.medicines[m].quantity = 5
                /\ rejected.medicines[m].status = "Available"

\* C16: a create on a medicine whose expiry is not after now is refused as
\* expired, whatever the medicine's quantity and remaining quantity, and
\* inserts no request.
C16_CreateOnExpiredRefusedAsExpired ==
    [][\A u \in Users, m \in DOMAIN medicines, q \in (-1)..MaxQty :
          (medicines[m].expiry <= now /\ Create(u, m, q)) =>
              /\ response'.code = 400
              /\ response'.error = "This medicine has expired"
              /\ requests' = requests
      ]_vars

\* C17: a create for a quantity that is 0, negative or more than the
\* medicine's remaining quantity is refused, inserts no request and leaves the
\* medicine as it is; and every request has a quantity of at least 1.
C17_CreateRefusesBadQuantity ==
    [][/\ \A u \in Users, m \in DOMAIN medicines, q \in (-1)..MaxQty :
             (/\ \/ q <= 0
                 \/ q > RemainingQuantity(medicines[m].quantity, NonTerminalSum(m))
              /\ Create(u, m, q)) =>
                 /\ response'.code = 400
                 /\ requests' = requests
                 /\ medicines' = medicines
       /\ \A r \in DOMAIN requests' : requests'[r].quantity >= 1
      ]_vars

\* C18: a create by the medicine's donor is refused as a request for one's own
\* medicine and inserts nothing, and no request has its donor as requester.
C18_SelfRequestRefused ==
    [][/\ \A u \in Users, m \in DOMAIN medicines, q \in (-1)..MaxQty :
             (medicines[m].donor = u /\ Create(u, m, q)) =>
                 /\ response'.code = 400
                 /\ response'.error = "You cannot request your own medicine"
                 /\ requests' = requests
       /\ \A r \in DOMAIN requests' : requests'[r].requester # requests'[r].donor
      ]_vars

\* C19: accept, reject, complete and fail called by a user who is not the
\* request's donor, and either cancel called by a user who is not its
\* requester, are refused and leave the requests, the medicines and the
\* notifications as they are.
C19_OnlyOwnerActs ==
    [][\A u \in Users, r \in DOMAIN requests, msg \in Messages :
          /\ (/\ u # requests[r].donor
              /\ \/ Accept(u, r, msg) \/ Reject(u, r, msg)
                 \/ Complete(u, r) \/ Fail(u, r, msg)) =>
                 /\ response'.code = 403
                 /\ UNCHANGED <<medicines, requests, notifications>>
          /\ (/\ u # requests[r].requester
              /\ Cancel(u, r) \/ CancelPage(u, r)) =>
                 /\ response'.error # ""
                 /\ UNCHANGED <<medicines, requests, notifications>>
      ]_vars

\* a user who is not the donor was refused the accept of a Pending request,
\* and a user who is not the requester could have been refused its cancel
C19_Witness ==
    /\ response.op = "accept"
    /\ response.code = 403
    /\ response.target \in DOMAIN requests
    /\ requests[response.target].status = "Pending"
    /\ \E u \in Users :
          /\ u # requests[response.target].requester
          /\ CancelHandler(Store, u, response.target).response.code = 404

C21_FailSucceeds ==
    [][\A r \in DOMAIN requests, reason \in Messages :
          LET m == requests[r].medicine
              q == requests[r].quantity
              notice == Notice("donation_failed", requests[r].requester, 0, r)
          IN  (requests[r].status \in NonTerminal
                   /\ Fail(requests[r].donor, r, reason)) =>
                  /\ response'.code = 200
                  /\ requests'[r].status = "Failed"
                  /\ requests'[r].donorResponse = OrDefault(reason, "Donation failed")
                  /\ medicines'[m].quantity =
                        IF requests[r].status = "Accepted"
                        THEN medicines[m].quantity + q ELSE medicines[m].quantity
                  /\ CopiesIn(notice, notifications') = CopiesIn(notice, notifications) + 1
      ]_vars

\* the step stores one more notification of this type for this recipient
Sent(type, recipient, m, r) ==
    CopiesIn(Notice(type, recipient, m, r), notifications')
        = CopiesIn(Notice(type, recipient, m, r), notifications) + 1

\* C22: the step that inserts a request stores request_received for the donor
\* and request_sent for the requester; the step in which a stored status
\* becomes Accepted, Rejected or Completed stores request_accepted,
\* request_rejected or donation_completed for the requester, and the one in
\* which it becomes Cancelled stores request_cancelled for the donor; and a
\* step that answers with an error stores no notification.
C22_StatusChangeNotified ==
    [][/\ \A r \in DOMAIN requests' :
             LET new == requests'[r]
             IN  IF r \notin DOMAIN requests
                 THEN /\ Sent("request_received", new.donor, new.medicine, r)
                      /\ Sent("request_sent", new.requester, new.medicine, r)
                 ELSE requests[r].status # new.status =>
                      /\ new.status = "Accepted" => Sent("request_accepted", new.requester, 0, r)
                      /\ new.status = "Rejected" => Sent("request_rejected", new.requester, 0, r)
                      /\ new.status = "Completed" => Sent("donation_completed", new.requester, 0, r)
                      /\ new.status = "Cancelled" => Sent("request_cancelled", new.donor, 0, r)
       /\ (response' # response /\ response'.error # "") => notifications' = notifications
      ]_vars

\* what tells one refusal from another: the status code and the message
Category(reply) == <<reply.code, reply.error>>

\* C25: on accept, reject, complete and cancel, a caller who is not the
\* request's donor (for cancel: its requester) gets an answer of another
\* category than a caller who names a request that does not exist.
C25_UnauthorizedDistinctFromNotFound ==
    \A u \in Users, r \in DOMAIN requests, none \in (1..MaxRequests) \ DOMAIN requests,
       msg \in Messages :
        /\ u # requests[r].donor =>
              /\ Category(AcceptHandler(Store, u, r, msg).response)
                    # Category(AcceptHandler(Store, u, none, msg).response)
              /\ Category(RejectHandler(Store, u, r, msg).response)
                    # Category(RejectHandler(Store, u, none, msg).response)
              /\ Category(CompleteHandler(Store, u, r).response)
                    # Category(CompleteHandler(Store, u, none).response)
        /\ u # requests[r].requester =>
              Category(CancelHandler(Store, u, r).response)
                  # Category(CancelHandler(Store, u, none).response)

\* C24: a step changes the quantity of a medicine only when it is an accept of
\* a request of that medicine, which lowers it, or a reject of an Accepted
\* request of that medicine, which raises it; create, cancel, complete and the
\* reject of a request that is not Accepted change no quantity, and no step
\* changes the quantity of a medicine other than its request's.
C24_QuantityFrame ==
    [][\A m \in DOMAIN medicines :
          medicines'[m].quantity # medicines[m].quantity =>
              /\ response'.target \in DOMAIN requests
              /\ requests[response'.target].medicine = m
              /\ \/ /\ response'.op = "accept"
                    /\ medicines'[m].quantity < medicines[m].quantity
                 \/ /\ response'.op = "reject"
                    /\ requests[response'.target].status = "Accepted"
                    /\ medicines'[m].quantity > medicines[m].quantity
      ]_vars

\* an accept lowered the quantity of one medicine while another medicine, with
\* a request of its own, kept the quantity it was donated with
C24_Witness ==
    /\ response.op = "accept"
    /\ response.code = 200
    /\ LET m == requests[response.target].medicine
       IN  /\ medicines[m].quantity < medicines[m].donated
           /\ \E o \in DOMAIN medicines \ {m} :
                 /\ medicines[o].quantity = medicines[o].donated
                 /\ \E r \in DOMAIN requests : requests[r].medicine = o

\* C23: whatever the interleaving of delete with create, every Pending or
\* Accepted request is a request of a medicine that is still stored.
C23_NoLiveRequestOfDeletedMedicine ==
    \A r \in DOMAIN requests :
        requests[r].status \in NonTerminal => requests[r].medicine \in DOMAIN medicines

\* the status codes a handler replies with
ResultCodes == {200, 302, 400, 403, 404, 500}

\* C26: every call of create, accept, reject, cancel, complete or fail ends,
\* whichever database call throws, and it ends with the handler idle again
\* and one reply of that operation carrying a status code.
C26_EveryCallReplies ==
    /\ [][\A p \in DOMAIN inflight :
             (inflight[p].pc = "handling" /\ inflight'[p] # inflight[p]) =>
                 /\ inflight'[p] = Idle
                 /\ response'.op = inflight[p].op
                 /\ response'.code \in ResultCodes
       ]_vars
    /\ \A p \in 1..MaxProcs :
          (inflight[p].pc = "handling") ~> (inflight[p].pc = "idle")

\* a create whose request was saved and whose later write threw: the catch
\* block replied, the request is stored and no notification of it was written
C26_Witness ==
    /\ response = Catch("create", 0)
    /\ \E r \in DOMAIN requests :
          /\ requests[r].status = "Pending"
          /\ \A n \in BagToSet(notifications) : n.request # r

\* the medicines the browse query of the last GET /browse matches
Candidates ==
    BrowseQuery(medicines, response.user.id, response.currentFilters.search)

\* medicine m has quantity left beyond its Pending and Accepted requests
Left(m) == medicines[m].quantity - NonTerminalSum(m) > 0

\* the medicines of the returned page, in its order, and as a set
Page == [i \in DOMAIN response.listings |-> response.listings[i].medicine]

Listed == {Page[i] : i \in DOMAIN Page}

\* the first PageSize, or all, of a sequence
FirstPage(seq) == SubSeq(seq, 1, IF Len(seq) < PageSize THEN Len(seq) ELSE PageSize)

\* C27: a browse by a user whose address line, city or state is missing sends
\* no address to the geocoder, returns no listing with a distance, drops no
\* candidate for its distance whatever radius was asked for, and with sort key
\* 'distance' or 'newest' returns the newest-first candidates' first page; with
\* 'oldest' the page is oldest-first and with 'expiry' soonest-expiry first.
C27_NoAddressNoDistance ==
    (/\ response.op = "browse"
     /\ ~(response.user.addressLine1 /\ response.user.city /\ response.user.state)) =>
        /\ DOMAIN response.geocoded = {}
        /\ \A i \in DOMAIN response.listings : response.listings[i].distance = Undefined
        /\ Cardinality(Candidates) <= PageSize => Listed = {m \in Candidates : Left(m)}
        /\ response.currentFilters.sort \in {"distance", "newest"} =>
               Page = SelectSeq(FirstPage(Descending(Candidates)), Left)
        /\ response.currentFilters.sort = "oldest" =>
               \A i, j \in DOMAIN Page : i < j => Page[i] < Page[j]
        /\ response.currentFilters.sort = "expiry" =>
               \A i, j \in DOMAIN Page :
                   i < j => medicines[Page[i]].expiry <= medicines[Page[j]].expiry

\* a user without a city asked for the nearest medicines within 1 km and got
\* two or more listings
C27_Witness ==
    /\ response.op = "browse"
    /\ response.user.addressLine1
    /\ ~response.user.city
    /\ response.currentFilters.distance = "1"
    /\ response.currentFilters.customDistance = ""
    /\ response.currentFilters.sort = "distance"
    /\ Len(response.listings) >= 2

\* the last GET /browse computed distances: the user has a usable address
Located ==
    /\ response.op = "browse"
    /\ response.user.addressLine1 /\ response.user.city /\ response.user.state

\* the geocoder resolved the address of the browsing user and of m's donor
Resolved(m) ==
    /\ response.geocoded[response.user.id] # Null
    /\ response.geocoded[medicines[m].donor] # Null

\* the distance between the browsing user and the donor of m
DistanceTo(m) ==
    Abs(response.geocoded[response.user.id] - response.geocoded[medicines[m].donor])

\* C28: when distances are computed and all candidates fit on a page, a radius
\* R keeps exactly the candidates with quantity left whose distance was
\* resolved and is at most R, distance 0 included, and distance 'all' keeps
\* every candidate with quantity left, resolved or not.
C28_RadiusKeepsExactlyTheNear ==
    (Located /\ Cardinality(Candidates) <= PageSize) =>
        IF FinalDistance(response.currentFilters) = ""
        THEN Listed = {m \in Candidates : Left(m)}
        ELSE Listed = {m \in Candidates :
                          /\ Left(m)
                          /\ Resolved(m)
                          /\ DistanceTo(m) <= ParseInt(FinalDistance(response.currentFilters))}

\* C29: with sort key 'distance' and distances computed, a listing of
\* resolved distance never follows one of unresolved distance, and resolved
\* distances never decrease down the page, a distance of 0 included.
C29_NearestFirstUnresolvedLast ==
    (Located /\ response.currentFilters.sort = "distance") =>
        \A i, j \in DOMAIN Page :
            i < j =>
                /\ Resolved(Page[j]) => Resolved(Page[i])
                /\ (Resolved(Page[i]) /\ Resolved(Page[j])) =>
                       DistanceTo(Page[i]) <= DistanceTo(Page[j])

\* C30: a browse with no radius in force returns at most PageSize listings,
\* and fewer than PageSize only when it returns every candidate with quantity
\* left.
C30_PageFullWhileEligibleRemain ==
    (/\ response.op = "browse"
     /\ ~Located \/ FinalDistance(response.currentFilters) = "") =>
        /\ Len(response.listings) <= PageSize
        /\ Len(response.listings) < PageSize => Listed = {m \in Candidates : Left(m)}

\* C31: a browse that computes distances always returns its page, whatever
\* the geocoding provider did: every geocodeAddress result is a location or
\* null; when the user's address was not resolved every listing has distance
\* null and 'Distance unknown'; otherwise a listing has distance null and
\* 'Distance unknown' when its donor's address was not resolved, and the
\* distance to its donor when it was.
C31_GeocoderFailureAbsorbed ==
    Located =>
        /\ response.code = 200
        /\ response.error = ""
        /\ \A a \in DOMAIN response.geocoded :
               response.geocoded[a] \in Coordinates \cup {Null}
        /\ \A i \in DOMAIN response.listings :
               LET l == response.listings[i]
               IN  IF Resolved(l.medicine)
                   THEN l.distance = DistanceTo(l.medicine)
                   ELSE l.distance = Null /\ l.distanceFormatted = "Distance unknown"

\* the provider failed for the donor of one listing only: that listing has
\* no distance and the one before it has
C31_Witness ==
    /\ Located
    /\ Len(response.listings) = 2
    /\ response.listings[1].distance > 0
    /\ response.listings[2].distance = Null
    /\ response.listings[2].distanceFormatted = "Distance unknown"

\* C32: calculateHaversineDistance returns 0 for two identical points, a
\* distance within 5 km of pi * 6371 (20015 km) for two antipodal points, and
\* the same distance with its two points exchanged.
C32_HaversineZeroAntipodalSymmetric ==
    response.op = "haversine" =>
        /\ (response.lat1 = response.lat2 /\ response.lon1 = response.lon2) =>
               response.distance = 0
        /\ (/\ response.lat2 = 0 - response.lat1
            /\ Abs(response.lon2 - response.lon1) = 180) =>
               Abs(response.distance - 20015) <= 5
        /\ response.distance =
               CalculateHaversineDistance(response.lat2, response.lon2,
                                          response.lat1, response.lon1)

\* C33: in every reachable state the stored quantity of a medicine is at most
\* the quantity it was donated with.
C33_QuantityAtMostDonated ==
    \A m \in DOMAIN medicines : medicines[m].quantity <= medicines[m].donated

C35_BrowseComplete ==
    \A u \in Users, m \in DOMAIN medicines :
        (/\ medicines[m].expiry > now
         /\ medicines[m].donor # u
         /\ Left(m)) => m \in BrowseQuery(medicines, u, FALSE)

\* C36: whoever browses, with or without a search term, every listing of the
\* page is a medicine of another user, has quantity left beyond its Pending
\* and Accepted requests, and expires in the future.
C36_ListingsRequestable ==
    \A u \in Users, search \in BOOLEAN :
        \A l \in BrowseHandler(Store, u, search).listings :
            /\ medicines[l.medicine].donor # u
            /\ Left(l.medicine)
            /\ medicines[l.medicine].expiry > now

\* C37: from every reachable state, for every user and every request, POST
\* /requests/:requestId/cancel and POST /cancel/:id either both cancel or both
\* refuse, and leave the same requests, the same medicines and the same
\* notifications.
C37_CancelEndpointsEquivalent ==
    \A u \in Users, r \in 1..MaxRequests :
        LET api == CancelHandler(Store, u, r)
            page == CancelPageHandler(Store, u, r)
        IN  /\ (api.response.error = "") <=> (page.response.error = "")
            /\ api.requests = page.requests
            /\ api.medicines = page.medicines
            /\ api.notifications = page.notifications

\* C38: once a request of a medicine is stored, in whatever status, a step
\* changes the quantity of the medicine only when it is an accept or a reject,
\* also while an edit and a create run concurrently.
C38_EditLeavesRequestedMedicine ==
    [][\A m \in DOMAIN medicines :
          (/\ \E r \in DOMAIN requests : requests[r].medicine = m
           /\ m \in DOMAIN medicines'
           /\ medicines'[m].quantity # medicines[m].quantity) =>
              response'.op \in {"accept", "reject"}
      ]_vars
====
